---- MODULE Spec2Model ----
(***************************************************************************)
(* DriveSense: the ISO-TP segmentation / reassembly engine (IsoTpProtocol) *)
(* and the diagnostic client built on it (CanInterface), modelled from     *)
(* src/src/CanInterface.py.                                                *)
(*                                                                         *)
(* Bytes are integers 0..255, byte strings are sequences of bytes, a CAN   *)
(* message is a record [arbitration_id, data].  Python's None is the empty *)
(* tuple <<>>; the tuple (arb_id, data) is <<arb_id, data>>; an optional    *)
(* byte string is <<>> (None) or <<bytes>>.  Time is counted in ticks of   *)
(* 0.1 s, the resolution of the shortest wait in the code (recv's 0.1 s).  *)
(***************************************************************************)
EXTENDS Integers, Sequences, FiniteSets, TLC

VARIABLES
    now,              \* time.time(), in ticks of 0.1 s
    receive_buffer,   \* IsoTpProtocol.receive_buffer: arb_id -> reassembly state
    last_received,    \* IsoTpProtocol.last_received: arb_id -> timestamp
    started_at,       \* arb_id -> the time its stored reassembly got its First frame
                      \* (a history of the calls, recorded in SpecSweep only; the
                      \* code keeps no such field)
    msg,              \* the frame last handed to process_received_frame (<<>>: none yet)
    result,           \* what process_received_frame returned for msg
    branch,           \* the return statement process_received_frame left through
    to_delete,        \* the identifiers _cleanup_old_messages removed in that call
    payload,          \* the data argument of create_send_frames
    frames,           \* the list create_send_frames returned
    fed,              \* how many of frames have been fed back, in order
    payload_b,        \* a second payload, encoded for the other identifier
    frames_b,         \* the list create_send_frames returned for it
    fed_b,            \* how many of frames_b have been fed back, in order
    connected,        \* CanInterface.connected
    active_dtcs,      \* CanInterface.active_dtcs: a list of code strings
    pending_requests, \* CanInterface.pending_requests
    op,               \* the CanInterface method in progress ("idle": none)
    pc,               \* "waiting" inside _wait_for_isotp_response's loop, else "idle"
    wait_arb_id,      \* _wait_for_isotp_response: arb_id
    wait_timeout,     \* _wait_for_isotp_response: timeout
    start_time,       \* _wait_for_isotp_response: start_time
    sent,             \* frames bus.send accepted in the last send_isotp_message
    response,         \* what the last send_isotp_message returned: None or <<bytes>>
    raised,           \* whether the last send_isotp_message raised instead
    outcome,          \* what the last CanInterface method returned, as a tag
    convert_arg,          \* the argument of _convert_raw_dtc
    convert_ret          \* the string _convert_raw_dtc returned for it ("": not called)

storeVars == <<receive_buffer, last_received, started_at, msg, result, branch, to_delete>>
pairVars == <<payload_b, frames_b, fed_b>>
codecVars == <<payload, frames, fed, pairVars>>
waitVars == <<wait_arb_id, wait_timeout, start_time>>
clientVars == <<connected, active_dtcs, pending_requests, op, pc, waitVars, sent,
                response, raised, outcome>>
dtcVars == <<convert_arg, convert_ret>>
vars == <<now, storeVars, codecVars, clientVars, dtcVars>>

None == <<>>

\* ------------------------------------------------------------------ bounds

\* The clock stops at MaxTime ticks.
MaxTime == 12
\* Payload lengths 0..MaxLen are all encoded (besides the listed long ones).
MaxLen == 24
\* The clock of the diagnostic client stops at MaxClientTime ticks.
MaxClientTime == 22
\* The explicit timeout a caller passes to send_isotp_message, in ticks.
RequestTimeout == 2

\* --------------------------------------------------------- program constants

\* self.timeout = 1.0 (seconds), in ticks
timeout == 10
\* the filler byte 0xCC
Filler == 204
\* the largest length the 12-bit length field of a First frame holds (0x0F, 0xFF)
MaxPayload == 4095

\* self.default_timeout = 2.0 (seconds), in ticks
default_timeout == 20
\* self.bus.recv(timeout=0.1), in ticks
RecvTimeout == 1

ECU_REQUEST == 2016    \* 0x7E0
ECU_RESPONSE == 2024   \* 0x7E8

\* ------------------------------------------------------------------ helpers

\* Python's data[a:b] on a sequence (0-based, end exclusive, clipped to the length).
Slice(s, a, b) ==
    LET hi == IF b < Len(s) THEN b ELSE Len(s)
    IN  IF a >= hi THEN <<>> ELSE [i \in 1..(hi - a) |-> s[a + i]]

\* [x] * n
Repeat(x, n) == IF n <= 0 THEN <<>> ELSE [i \in 1..n |-> x]

\* A table (dict) with key k removed, and with key k set to v.
DelKey(f, k) == [x \in (DOMAIN f) \ {k} |-> f[x]]
SetKey(f, k, v) == [x \in (DOMAIN f) \cup {k} |-> IF x = k THEN v ELSE f[x]]

Message(arb_id, data) == [arbitration_id |-> arb_id, data |-> data]

\* ------------------------------------------------ IsoTpProtocol: reassembly

\* _cleanup_old_messages: the identifiers whose timestamp is older than timeout.
ToDeleteNever(last, t) == {}
ToDeleteSwapped(last, t) == {a \in DOMAIN last : last[a] - t > timeout}
ToDelete(last, t) == {a \in DOMAIN last : t - last[a] > timeout}

CleanupBuffer(buf, last, t) == [a \in (DOMAIN buf) \ ToDelete(last, t) |-> buf[a]]
CleanupLastKeep(last, t) == last
CleanupLast(last, t) == [a \in (DOMAIN last) \ ToDelete(last, t) |-> last[a]]

\* expected_seq = (last_seq + 1) % 16
ExpectedSeqNoWrap(last_seq) == last_seq + 1
ExpectedSeq(last_seq) == (last_seq + 1) % 16

\* if seq_num != expected_seq
SequenceErrorOnlyAhead(seq_num, last_seq) == seq_num > ExpectedSeq(last_seq)
SequenceError(seq_num, last_seq) == seq_num /= ExpectedSeq(last_seq)

\* The First-frame branch: the state stored for the identifier.
FirstFrameState(data) ==
    LET length == ((data[1] % 16) * 256) + data[2]
    IN  [data |-> Slice(data, 2, Len(data)),
         expected_length |-> length,
         remaining |-> length - (Len(data) - 2),
         last_seq |-> 0]

\* self.receive_buffer[arb_id] = {...}: the table with the new state under
\* arb_id, whatever was there.
StoreFirstFrameAlone(b, arb_id, data) == [x \in {arb_id} |-> FirstFrameState(data)]
StoreFirstFrameKeep(b, arb_id, data) ==
    IF arb_id \in DOMAIN b THEN b ELSE SetKey(b, arb_id, FirstFrameState(data))
StoreFirstFrame(b, arb_id, data) == SetKey(b, arb_id, FirstFrameState(data))

\* The Consecutive-frame branch on an accepted frame: the state after appending.
AppendedStateWholeFrame(st, data) ==
    [data |-> st.data \o data,
     expected_length |-> st.expected_length,
     remaining |-> st.remaining - (Len(data) - 1),
     last_seq |-> data[1] % 16]
AppendedStateNoCount(st, data) ==
    [data |-> st.data \o Slice(data, 1, Len(data)),
     expected_length |-> st.expected_length,
     remaining |-> st.remaining,
     last_seq |-> data[1] % 16]
AppendedState(st, data) ==
    [data |-> st.data \o Slice(data, 1, Len(data)),
     expected_length |-> st.expected_length,
     remaining |-> st.remaining - (Len(data) - 1),
     last_seq |-> data[1] % 16]

\* if self.receive_buffer[arb_id]['remaining'] <= 0
IsCompleteStrict(st) == st.remaining < 0
IsComplete(st) == st.remaining <= 0

\* first_byte >> 4: 0 Single, 1 First, 2 Consecutive frame.
FrameTypeLowBit(first_byte) == (first_byte \div 16) % 2
FrameType(first_byte) == first_byte \div 16

\* The Single-frame branch: arb_id, bytes(data[1:1+length]), length = first_byte & 0x0F.
SingleFrameMessageWhole(arb_id, data) == <<arb_id, Slice(data, 1, Len(data))>>
SingleFrameMessage(arb_id, data) == <<arb_id, Slice(data, 1, 1 + (data[1] % 16))>>

\* process_received_frame(msg) at time t on the tables (buf, last): the tables
\* afterwards, the value returned and the return statement taken.
ProcessFrame(buf, last, m, t) ==
    LET arb_id == m.arbitration_id
        data == m.data
        first_byte == data[1]
        b == CleanupBuffer(buf, last, t)
        l == CleanupLast(last, t)
    IN  IF FrameType(first_byte) = 0 THEN
            [swept |-> ToDelete(last, t), buf |-> b, last |-> l, branch |-> "single",
             result |-> SingleFrameMessage(arb_id, data)]
        ELSE IF FrameType(first_byte) = 1 THEN
            [swept |-> ToDelete(last, t), buf |-> StoreFirstFrame(b, arb_id, data),
             last |-> SetKey(l, arb_id, t), branch |-> "first", result |-> None]
        ELSE IF FrameType(first_byte) = 2 THEN
            IF arb_id \notin DOMAIN b THEN
                [swept |-> ToDelete(last, t), buf |-> b, last |-> l, branch |-> "cf_unmatched", result |-> None]
            ELSE IF SequenceError(first_byte % 16, b[arb_id].last_seq) THEN
                [swept |-> ToDelete(last, t), buf |-> DelKey(b, arb_id), last |-> DelKey(l, arb_id),
                 branch |-> "cf_sequence_error", result |-> None]
            ELSE
                LET st == AppendedState(b[arb_id], data)
                IN  IF IsComplete(st) THEN
                        [swept |-> ToDelete(last, t), buf |-> DelKey(b, arb_id), last |-> DelKey(l, arb_id),
                         branch |-> "cf_complete", result |-> <<arb_id, st.data>>]
                    ELSE
                        [swept |-> ToDelete(last, t), buf |-> SetKey(b, arb_id, st), last |-> SetKey(l, arb_id, t),
                         branch |-> "cf_accepted", result |-> None]
        ELSE
            [swept |-> ToDelete(last, t), buf |-> b, last |-> l, branch |-> "unknown", result |-> None]

\* ------------------------------------------------ IsoTpProtocol: segmentation

\* One Consecutive frame: 0x20 | (seq_num & 0x0F), the chunk, padded with 0xCC.
ConsecutiveFrameNoPad(seq_num, chunk) == <<32 + (seq_num % 16)>> \o chunk
ConsecutiveFrame(seq_num, chunk) ==
    <<32 + (seq_num % 16)>> \o chunk \o Repeat(Filler, 8 - (1 + Len(chunk)))

\* seq_num = (seq_num + 1) % 16
NextSeq(seq_num) == (seq_num + 1) % 16

\* seq_num after j passes of the while loop: NextSeq applied j times.
SeqNumAfter(seq_num, j) == IF j = 0 THEN seq_num ELSE NextSeq(seq_num + j - 1)

\* The while loop over remaining_data: pass k appends the Consecutive frame
\* that carries remaining_data[:7] and leaves remaining_data[7:], so the k-th
\* frame carries the k-th chunk of 7 bytes; the loop ends when nothing is left.
ConsecutiveFrames(arb_id, remaining_data, seq_num) ==
    LET passes == (Len(remaining_data) + 6) \div 7
    IN  [k \in 1..passes |->
            Message(arb_id, ConsecutiveFrame(SeqNumAfter(seq_num, k - 1),
                                             Slice(remaining_data, 7 * (k - 1), 7 * k)))]

SingleFrame(data) == <<Len(data)>> \o data \o Repeat(Filler, 8 - (1 + Len(data)))

\* 0x10 | ((length >> 8) & 0x0F), length & 0xFF, data[:6]
FirstFrame(data) ==
    <<16 + ((Len(data) \div 256) % 16), Len(data) % 256>> \o Slice(data, 0, 6)

create_send_frames(arb_id, data) ==
    IF Len(data) <= 7 THEN <<Message(arb_id, SingleFrame(data))>>
    ELSE <<Message(arb_id, FirstFrame(data))>>
         \o ConsecutiveFrames(arb_id, Slice(data, 6, Len(data)), 1)

\* ------------------------------------------------------------ inputs

\* The payloads handed to create_send_frames: byte i is (seed + i) mod 256.
\* The lengths include the longest a First frame can declare and one more.
PayloadOf(len, seed) == [i \in 1..len |-> (seed + i) % 256]
PayloadLens ==
    (0..MaxLen) \cup {100, 111, 112, 118, 119, 255, 256, 257, MaxPayload, MaxPayload + 1}
Payloads == {PayloadOf(len, seed) : len \in PayloadLens, seed \in {0, 200}}

\* The frames fed to process_received_frame: 8 bytes each, on two identifiers;
\* the six bytes after byte 1 are 100 + byte 1, so that the bytes of different
\* First frames and of Consecutive frames can be told apart.
\* Single frames (0x03, 0x07), First frames declaring 5, 13 and 20 bytes,
\* Consecutive frames 0, 1 and 2, and a frame of no known kind (0x30).
FeedIds == {ECU_RESPONSE, ECU_REQUEST}
FrameData(b0, b1) == <<b0, b1>> \o Repeat(100 + b1, 6)
FeedData ==
    {FrameData(3, 1), FrameData(7, 1), FrameData(16, 5), FrameData(16, 13),
     FrameData(16, 20), FrameData(32, 1), FrameData(33, 1), FrameData(34, 1),
     FrameData(48, 1)}
FeedFrames == {Message(a, d) : a \in FeedIds, d \in FeedData}

IsFirst(m) == m /= None /\ m.data[1] \div 16 = 1
IsConsecutive(m) == m /= None /\ m.data[1] \div 16 = 2
IsSingle(m) == m /= None /\ m.data[1] \div 16 = 0

\* ------------------------------------------------------------ the store

InitCommon ==
    /\ now = 0
    /\ receive_buffer = <<>>
    /\ last_received = <<>>
    /\ started_at = <<>>
    /\ msg = None
    /\ result = None
    /\ branch = "none"
    /\ to_delete = {}
    /\ payload = <<>>
    /\ frames = <<>>
    /\ fed = 0
    /\ payload_b = <<>>
    /\ frames_b = <<>>
    /\ fed_b = 0
    /\ active_dtcs = <<>>
    /\ pending_requests = <<>>
    /\ op = "idle"
    /\ pc = "idle"
    /\ wait_arb_id = 0
    /\ wait_timeout = 0
    /\ start_time = 0
    /\ sent = 0
    /\ response = None
    /\ raised = FALSE
    /\ outcome = "none"
    /\ convert_arg = 0
    /\ convert_ret = ""

Init == InitCommon /\ connected = TRUE

\* process_received_frame(m) called at time t.
FeedStore(m, t) ==
    LET r == ProcessFrame(receive_buffer, last_received, m, t)
    IN  /\ receive_buffer' = r.buf
        /\ last_received' = r.last
        /\ result' = r.result
        /\ branch' = r.branch
        /\ to_delete' = r.swept
        /\ msg' = m

FeedAt(m, t) == FeedStore(m, t) /\ UNCHANGED started_at

FeedFrame ==
    /\ pc = "idle"
    /\ \E m \in FeedFrames : FeedAt(m, now)
    /\ UNCHANGED <<now, codecVars, clientVars, dtcVars>>

\* Time passes between two calls.
Tick ==
    /\ pc = "idle"
    /\ now < MaxTime
    /\ now' = now + 1
    /\ UNCHANGED <<storeVars, codecVars, clientVars, dtcVars>>

Next == FeedFrame \/ Tick

Spec == Init /\ [][Next]_vars

\* ------------------------------------------- the store, with its history

\* The frames of one long reassembly and a Single frame, on two identifiers.
SweepData == {FrameData(16, 20), FrameData(33, 1), FrameData(3, 1)}
SweepFrames == {Message(a, d) : a \in FeedIds, d \in SweepData}

\* process_received_frame(m) called now; the time of the First frame of every
\* reassembly the store holds afterwards is recorded.
FeedTimed ==
    /\ \E m \in SweepFrames :
        /\ FeedStore(m, now)
        /\ started_at' = [a \in DOMAIN receive_buffer' |->
                              IF a = m.arbitration_id /\ branch' = "first"
                              THEN now ELSE started_at[a]]
    /\ UNCHANGED <<now, codecVars, clientVars, dtcVars>>

NextSweep == FeedTimed \/ Tick

SpecSweep == Init /\ [][NextSweep]_vars

\* ------------------------------------------------------------ the codec

\* frames = create_send_frames(arb_id, data)
Encode ==
    /\ frames = <<>>
    /\ \E p \in Payloads :
        /\ payload' = p
        /\ frames' = create_send_frames(ECU_REQUEST, p)
    /\ UNCHANGED <<now, storeVars, fed, pairVars, clientVars, dtcVars>>

\* The next emitted frame is fed to process_received_frame.
FeedNext ==
    /\ fed < Len(frames)
    /\ FeedAt(frames[fed + 1], now)
    /\ fed' = fed + 1
    /\ UNCHANGED <<now, payload, frames, pairVars, clientVars, dtcVars>>

NextCodec == Encode \/ FeedNext

SpecCodec == Init /\ [][NextCodec]_vars

\* ------------------------------------------- two messages, interleaved

\* The lengths of the two payloads: two to five frames each, with and
\* without filler in the last one.
PairLens == {8, 13, 14, 20, 27, 28}

\* frames = create_send_frames(0x7E0, p); frames_b = create_send_frames(0x7E8, q)
EncodePair ==
    /\ frames = <<>>
    /\ frames_b = <<>>
    /\ \E la \in PairLens, lb \in PairLens :
        /\ payload' = PayloadOf(la, 0)
        /\ frames' = create_send_frames(ECU_REQUEST, PayloadOf(la, 0))
        /\ payload_b' = PayloadOf(lb, 200)
        /\ frames_b' = create_send_frames(ECU_RESPONSE, PayloadOf(lb, 200))
    /\ UNCHANGED <<now, storeVars, fed, fed_b, clientVars, dtcVars>>

\* The next frame of the second message is fed to process_received_frame.
FeedNextB ==
    /\ fed_b < Len(frames_b)
    /\ FeedAt(frames_b[fed_b + 1], now)
    /\ fed_b' = fed_b + 1
    /\ UNCHANGED <<now, payload, frames, fed, payload_b, frames_b, clientVars, dtcVars>>

\* Time passes between two calls, the whole feed staying within the timeout.
PairTick ==
    /\ now < timeout
    /\ now' = now + 1
    /\ UNCHANGED <<storeVars, codecVars, clientVars, dtcVars>>

NextPair == EncodePair \/ FeedNext \/ FeedNextB \/ PairTick

SpecPair == Init /\ [][NextPair]_vars

\* ------------------------------------------------- CanInterface: trouble codes

letters == <<"P", "C", "B", "U">>

\* _convert_raw_dtc: the letter and the four fields, each formatted as the
\* decimal number it is (f"{letter}{digit1}{digit2}{digit3}{digit4}").
convert_raw_dtc(dtc_raw) ==
    letters[((dtc_raw \div 16384) % 4) + 1]
        \o ToString((dtc_raw \div 4096) % 4)
        \o ToString((dtc_raw \div 256) % 16)
        \o ToString((dtc_raw \div 16) % 16)
        \o ToString(dtc_raw % 16)

\* read_dtcs: for i in range(1, len(response), 2), with i Python's index.
RECURSIVE ParseLoop(_, _, _)
ParseLoop(resp, i, dtcs) ==
    IF i >= Len(resp) THEN dtcs
    ELSE IF i + 1 < Len(resp)
         THEN LET dtc_code == convert_raw_dtc((resp[i + 1] * 256) + resp[i + 2])
              IN  ParseLoop(resp, i + 2,
                            IF dtc_code /= "" THEN Append(dtcs, dtc_code) ELSE dtcs)
         ELSE ParseLoop(resp, i + 2, dtcs)

\* "if response": an optional byte string that is neither None nor empty.
Truthy(resp) == resp /= None /\ Len(resp[1]) > 0

\* read_dtcs: active_dtcs after the response was looked at.
ReadDtcsAnyLead(active, resp) ==
    IF Truthy(resp) THEN ParseLoop(resp[1], 1, <<>>) ELSE active
ReadDtcsKeepOld(active, resp) ==
    IF Truthy(resp) /\ resp[1][1] = 67 THEN active \o ParseLoop(resp[1], 1, <<>>) ELSE active
ReadDtcsUpdate(active, resp) ==
    IF Truthy(resp) /\ resp[1][1] = 67 THEN ParseLoop(resp[1], 1, <<>>) ELSE active

\* clear_dtcs: response and response[0] == 0x44
ClearAccepted(resp) == Truthy(resp) /\ resp[1][1] = 68

\* clear_dtcs: active_dtcs after the response was looked at.
ClearDtcsNoReset(active, resp) == active
ClearDtcsUpdate(active, resp) == IF ClearAccepted(resp) THEN <<>> ELSE active

\* list.remove(x): the list without the first occurrence of x.
RECURSIVE RemoveFirst(_, _)
RemoveFirst(list, x) ==
    IF list = <<>> THEN <<>>
    ELSE IF Head(list) = x THEN Tail(list)
    ELSE <<Head(list)>> \o RemoveFirst(Tail(list), x)

Contains(list, x) == \E i \in 1..Len(list) : list[i] = x

\* ------------------------------------------------- CanInterface: requests

\* while time.time() - start_time < timeout
LoopCondNoStart(t, start, to) == t < to
LoopCondSwapped(t, start, to) == start - t < to
LoopCond(t, start, to) == t - start < to

\* if result and result[0] == arb_id
MatchesAny(res, arb_id) == res /= None
Matches(res, arb_id) == res /= None /\ res[1] = arb_id

\* send_isotp_message has returned resp (or raised, when exc) to the method o:
\* the rest of that method runs.
Complete(o, resp, exc) ==
    /\ op' = "idle"
    /\ pc' = "idle"
    /\ response' = resp
    /\ raised' = exc
    /\ UNCHANGED <<connected, pending_requests>>
    /\ CASE o = "send_isotp_message" ->
              /\ outcome' = IF exc THEN "request_raised"
                            ELSE IF resp = None THEN "request_none" ELSE "request_bytes"
              /\ UNCHANGED active_dtcs
         [] o \in {"read_dtcs", "read_data"} ->
              IF exc
              THEN /\ outcome' = IF o = "read_dtcs" THEN "read_dtcs_error" ELSE "read_data_raw"
                   /\ UNCHANGED active_dtcs
              ELSE /\ outcome' = IF o = "read_dtcs" THEN "read_dtcs_list" ELSE "read_data_raw"
                   /\ active_dtcs' = ReadDtcsUpdate(active_dtcs, resp)
         [] o = "clear_dtcs" ->
              IF ~exc /\ ClearAccepted(resp)
              THEN outcome' = "clear_true" /\ active_dtcs' = ClearDtcsUpdate(active_dtcs, resp)
              ELSE outcome' = "clear_false" /\ UNCHANGED active_dtcs

\* _wait_for_isotp_response is not entered.
NoWait == wait_arb_id' = 0 /\ wait_timeout' = 0 /\ start_time' = 0

\* send_isotp_message(arb_id, data, response_arb_id, timeout) called at time t
\* by method o (response_arb_id is None or <<identifier>>): the frames are sent (bus.send may fail at any of them, which
\* ends the call with None), then the wait begins.
StartRequest(o, arb_id, data, response_arb_id, to, t) ==
    LET fs == create_send_frames(arb_id, data)
    IN  /\ payload' = data
        /\ frames' = fs
        /\ UNCHANGED <<fed, pairVars>>
        /\ \E k \in 0..Len(fs) :
            /\ sent' = k
            /\ IF k < Len(fs) THEN
                   Complete(o, None, FALSE) /\ NoWait
               ELSE IF response_arb_id /= None THEN
                   /\ op' = o
                   /\ pc' = "waiting"
                   /\ wait_arb_id' = response_arb_id[1]
                   /\ wait_timeout' = to
                   /\ start_time' = t
                   /\ response' = None
                   /\ raised' = FALSE
                   /\ outcome' = "none"
                   /\ UNCHANGED <<connected, active_dtcs, pending_requests>>
               ELSE
                   Complete(o, None, FALSE) /\ NoWait

\* The frames bus.recv hands over.  On the response identifier: a read
\* response with two codes, one that names the same code twice, a read
\* response of one odd byte, a clear response,
\* and a read response in two frames (a First frame declaring 8 bytes and its
\* Consecutive frame, padded).  On the request identifier: a message that
\* reads like a read response.
RecvFrames ==
    {Message(ECU_RESPONSE, <<5, 67, 1, 35, 1, 32, Filler, Filler>>),
     Message(ECU_RESPONSE, <<5, 67, 1, 35, 1, 35, Filler, Filler>>),
     Message(ECU_RESPONSE, <<2, 67, 171>> \o Repeat(Filler, 5)),
     Message(ECU_RESPONSE, <<1, 68>> \o Repeat(Filler, 6)),
     Message(ECU_RESPONSE, <<16, 8, 67, 1, 35, 1, 32, 1>>),
     Message(ECU_RESPONSE, <<33, 0>> \o Repeat(Filler, 6)),
     Message(ECU_REQUEST, <<3, 67, 1, 0>> \o Repeat(Filler, 4))}

\* The payload and timeout of the application's own send_isotp_message calls.
RequestPayloads == {<<34, 241, 144, 1, 2, 3, 4, 5>>}
RequestTimeouts == {RequestTimeout}

Idle == pc = "idle" /\ op = "idle"

\* A method is entered: nothing has been received or returned in it yet.
EnterMethod ==
    /\ msg' = None
    /\ result' = None
    /\ branch' = "none"
    /\ to_delete' = {}
    /\ UNCHANGED <<receive_buffer, last_received, started_at>>

\* A method that returns without calling send_isotp_message: no frames are
\* made, nothing is sent.
ReturnAtOnce(tag) ==
    /\ outcome' = tag
    /\ response' = None
    /\ raised' = FALSE
    /\ sent' = 0
    /\ payload' = <<>>
    /\ frames' = <<>>
    /\ NoWait
    /\ UNCHANGED <<fed, pairVars, pending_requests, op, pc>>

\* send_isotp_message called by the application itself.
SendIsoTpMessage ==
    /\ UNCHANGED dtcVars
    /\ Idle
    /\ \E data \in RequestPayloads, rid \in {None, <<ECU_RESPONSE>>}, to \in RequestTimeouts :
        /\ now + to + RecvTimeout <= MaxClientTime
        /\ StartRequest("send_isotp_message", ECU_REQUEST, data, rid, to, now)
    /\ EnterMethod
    /\ UNCHANGED now

\* read_dtcs()
ReadDtcs ==
    /\ UNCHANGED dtcVars
    /\ Idle
    /\ IF ~connected THEN
           /\ ReturnAtOnce("read_dtcs_list")
           /\ UNCHANGED <<connected, active_dtcs>>
       ELSE
           /\ now + default_timeout + RecvTimeout <= MaxClientTime
           /\ StartRequest("read_dtcs", ECU_REQUEST, <<3>>, <<ECU_RESPONSE>>,
                           default_timeout, now)
    /\ EnterMethod
    /\ UNCHANGED now

\* clear_dtcs()
ClearDtcs ==
    /\ UNCHANGED dtcVars
    /\ Idle
    /\ IF ~connected THEN
           /\ ReturnAtOnce("clear_false")
           /\ UNCHANGED <<connected, active_dtcs>>
       ELSE
           /\ now + default_timeout + RecvTimeout <= MaxClientTime
           /\ StartRequest("clear_dtcs", ECU_REQUEST, <<4>>, <<ECU_RESPONSE>>,
                           default_timeout, now)
    /\ EnterMethod
    /\ UNCHANGED now

\* read_data(): one bus.recv(timeout=0.1); a frame that completes no message
\* is read as raw data, and read_dtcs() is called for its 'dtcs' entry.
ReadData ==
    /\ UNCHANGED dtcVars
    /\ Idle
    /\ IF ~connected THEN
           /\ ReturnAtOnce("read_data_none")
           /\ EnterMethod
           /\ UNCHANGED <<now, connected, active_dtcs>>
       ELSE
           /\ now + RecvTimeout + default_timeout + RecvTimeout <= MaxClientTime
           /\ \/ /\ now' = now + RecvTimeout
                 /\ ReturnAtOnce("read_data_none")
                 /\ EnterMethod
                 /\ UNCHANGED <<connected, active_dtcs>>
              \/ /\ connected' = FALSE
                 /\ ReturnAtOnce("read_data_none")
                 /\ EnterMethod
                 /\ UNCHANGED <<now, active_dtcs>>
              \/ \E m \in RecvFrames, d \in 0..RecvTimeout :
                   LET r == ProcessFrame(receive_buffer, last_received, m, now + d)
                   IN  /\ now' = now + d
                       /\ FeedAt(m, now + d)
                       /\ IF r.result /= None
                          THEN /\ ReturnAtOnce("read_data_isotp")
                               /\ UNCHANGED <<connected, active_dtcs>>
                          ELSE StartRequest("read_data", ECU_REQUEST, <<3>>,
                                            <<ECU_RESPONSE>>, default_timeout, now + d)

\* One turn of _wait_for_isotp_response's loop: bus.recv(timeout=0.1) returns
\* nothing after 0.1 s, or a frame within it, or fails.
WaitPoll ==
    /\ UNCHANGED dtcVars
    /\ pc = "waiting"
    /\ LoopCond(now, start_time, wait_timeout)
    /\ \/ /\ now + RecvTimeout <= MaxClientTime
          /\ now' = now + RecvTimeout
          /\ UNCHANGED <<storeVars, codecVars, clientVars>>
       \/ /\ Complete(op, None, TRUE)
          /\ UNCHANGED <<now, storeVars, codecVars, waitVars, sent>>
       \/ \E m \in RecvFrames, d \in 0..RecvTimeout :
            LET r == ProcessFrame(receive_buffer, last_received, m, now + d)
            IN  /\ now + d <= MaxClientTime
                /\ now' = now + d
                /\ FeedAt(m, now + d)
                /\ IF Matches(r.result, wait_arb_id)
                   THEN Complete(op, <<r.result[2]>>, FALSE)
                   ELSE UNCHANGED <<connected, active_dtcs, pending_requests, op, pc,
                                    response, raised, outcome>>
                /\ UNCHANGED <<codecVars, waitVars, sent>>

\* The loop condition fails: _wait_for_isotp_response returns None.
WaitExpired ==
    /\ UNCHANGED dtcVars
    /\ pc = "waiting"
    /\ ~LoopCond(now, start_time, wait_timeout)
    /\ Complete(op, None, FALSE)
    /\ UNCHANGED <<now, storeVars, codecVars, waitVars, sent>>

\* The code the test helpers add and remove.
SimulatedCodes == {"P0123"}

\* simulate_new_dtc(convert_ret)
SimulateNewDtc ==
    /\ UNCHANGED dtcVars
    /\ Idle
    /\ \E c \in SimulatedCodes :
        active_dtcs' = IF Contains(active_dtcs, c) THEN active_dtcs
                       ELSE Append(active_dtcs, c)
    /\ ReturnAtOnce("simulate")
    /\ EnterMethod
    /\ UNCHANGED <<now, connected>>

\* simulate_dtc_clear(convert_ret)
SimulateDtcClear ==
    /\ UNCHANGED dtcVars
    /\ Idle
    /\ \E c \in SimulatedCodes :
        active_dtcs' = IF Contains(active_dtcs, c) THEN RemoveFirst(active_dtcs, c)
                       ELSE active_dtcs
    /\ ReturnAtOnce("simulate")
    /\ EnterMethod
    /\ UNCHANGED <<now, connected>>

\* Time passes between two calls of the client; the caller has used what the
\* last call returned.
ClientTick ==
    /\ UNCHANGED dtcVars
    /\ Idle
    /\ now < MaxClientTime
    /\ now' = now + 1
    /\ EnterMethod
    /\ ReturnAtOnce("none")
    /\ UNCHANGED <<connected, active_dtcs>>

InitClient == InitCommon /\ connected \in BOOLEAN

NextClient ==
    \/ SendIsoTpMessage
    \/ ReadDtcs
    \/ ClearDtcs
    \/ ReadData
    \/ WaitPoll
    \/ WaitExpired
    \/ SimulateNewDtc
    \/ SimulateDtcClear
    \/ ClientTick

SpecClient == InitClient /\ [][NextClient]_vars

\* The application only makes requests of its own.
NextRequest ==
    \/ SendIsoTpMessage
    \/ WaitPoll
    \/ WaitExpired
    \/ ClientTick

SpecRequest == InitClient /\ [][NextRequest]_vars

\* Every bus.recv returns within its timeout and the clock advances: a turn of
\* the loop that takes time is eventually taken, and so is the loop's exit.
SpecRequestFair ==
    /\ SpecRequest
    /\ WF_vars(WaitPoll /\ now' > now)
    /\ WF_vars(WaitExpired)

\* ------------------------------------------------- _convert_raw_dtc alone

\* _convert_raw_dtc(convert_arg) for any 16-bit value.
ConvertRawDtc ==
    /\ convert_ret = ""
    /\ \E raw \in 0..65535 :
        /\ convert_arg' = raw
        /\ convert_ret' = convert_raw_dtc(raw)
    /\ UNCHANGED <<now, storeVars, codecVars, clientVars>>

NextDtc == ConvertRawDtc

SpecDtc == Init /\ [][NextDtc]_vars

\* ------------------------------------------------------------ claims

\* All frames of the encoded payload have been fed back.
AllFed == frames /= <<>> /\ fed = Len(frames)

\* C1: for a payload of length 0, 1, 7, 8, 100 or 4095, feeding the frames of
\* create_send_frames in order into an empty store delivers exactly the
\* payload: same length, same bytes, nothing after them.
C1_RoundTrip ==
    (AllFed /\ Len(payload) \in {0, 1, 7, 8, 100, MaxPayload})
        => result = <<ECU_REQUEST, payload>>

\* C2: a Consecutive frame on X whose sequence number is not
\* (last_seq + 1) % 16 removes X's state and returns nothing; a Consecutive
\* frame on an identifier without state returns nothing and creates none;
\* state for X appears only through a First frame on X, which starts with
\* last_seq = 0 and only that frame's bytes [2:] accumulated.
C2_Step ==
    (now' = now /\ msg' /= None) =>
        LET X == msg'.arbitration_id
        IN  /\ (/\ IsConsecutive(msg')
                /\ X \in DOMAIN receive_buffer
                /\ msg'.data[1] % 16 /= (receive_buffer[X].last_seq + 1) % 16)
               => (/\ X \notin DOMAIN receive_buffer'
                   /\ X \notin DOMAIN last_received'
                   /\ result' = None)
            /\ (IsConsecutive(msg') /\ X \notin DOMAIN receive_buffer)
               => (/\ X \notin DOMAIN receive_buffer'
                   /\ result' = None)
            /\ IsFirst(msg')
               => (/\ X \in DOMAIN receive_buffer'
                   /\ receive_buffer'[X].last_seq = 0
                   /\ receive_buffer'[X].data = Slice(msg'.data, 2, 8)
                   /\ result' = None)
            /\ \A Y \in (DOMAIN receive_buffer') \ (DOMAIN receive_buffer) :
                   IsFirst(msg') /\ Y = X
C2_SequenceErrorDiscards == [][C2_Step]_vars

\* A sequence error was just taken on an identifier, whose state is gone.
C2_Witness ==
    /\ branch = "cf_sequence_error"
    /\ msg.arbitration_id \notin DOMAIN receive_buffer
    /\ result = None

\* The state of identifier X holds a First frame and nothing else.
FirstOnly(buf, X) == buf[X].last_seq = 0 /\ Len(buf[X].data) = 6

\* C3: a reassembly that got its First frame and nothing since for longer than
\* the timeout is removed by the next call for any identifier before the frame
\* is processed: a Consecutive frame on it is then unmatched, and only a First
\* frame on it leaves (fresh) state behind.
C3_Step ==
    (now' = now /\ msg' /= None) =>
        \A X \in DOMAIN receive_buffer :
            (FirstOnly(receive_buffer, X) /\ now - last_received[X] > timeout) =>
                /\ X \in to_delete'
                /\ IF msg'.arbitration_id = X /\ IsFirst(msg')
                   THEN last_received'[X] = now
                   ELSE X \notin DOMAIN receive_buffer' /\ X \notin DOMAIN last_received'
                /\ (msg'.arbitration_id = X /\ IsConsecutive(msg'))
                   => (result' = None /\ branch' = "cf_unmatched")
C3_TimeoutEviction == [][C3_Step]_vars

\* Consecutive frame 1 arrived on an identifier the same call had just swept.
C3_Witness ==
    /\ msg /= None
    /\ msg.data[1] = 33
    /\ msg.arbitration_id \in to_delete
    /\ branch = "cf_unmatched"
    /\ msg.arbitration_id \notin DOMAIN receive_buffer

\* C7: for a payload create_send_frames can declare (at most 4095 bytes)
\* needing 16 or more Consecutive frames, the k-th
\* Consecutive frame carries sequence number k mod 16, every frame fed in
\* order is accepted, and the message is delivered on the last frame only.
C7_Wraparound ==
    (Len(frames) >= 17 /\ Len(payload) <= MaxPayload) =>
        /\ \A k \in 1..(Len(frames) - 1) : frames[k + 1].data[1] = 32 + (k % 16)
        /\ (fed >= 1 /\ fed < Len(frames))
           => (/\ result = None
               /\ branch \in {"first", "cf_accepted"}
               /\ ECU_REQUEST \in DOMAIN receive_buffer)
        /\ fed = Len(frames)
           => (/\ branch = "cf_complete"
               /\ result /= None
               /\ result[1] = ECU_REQUEST)

\* A message of 16 or more Consecutive frames was delivered.
C7_Witness ==
    Len(frames) >= 17 /\ Len(payload) <= MaxPayload /\ AllFed /\ branch = "cf_complete"

\* C8: every emitted frame is 8 bytes; L <= 7 gives one frame, byte0 = L, the
\* payload, 0xCC padding; 8 <= L <= 4095 gives a First frame (0x10 | (L >> 8),
\* L & 0xFF, payload[0..5]) and exactly ceil((L - 6) / 7) Consecutive frames.
C8_EncodingShape ==
    frames /= <<>> =>
        LET L == Len(payload)
        IN  /\ \A i \in 1..Len(frames) : Len(frames[i].data) = 8
            /\ L <= 7 =>
                /\ Len(frames) = 1
                /\ frames[1].data[1] = L
                /\ \A i \in 1..L : frames[1].data[1 + i] = payload[i]
                /\ \A i \in (L + 2)..8 : frames[1].data[i] = Filler
            /\ (L >= 8 /\ L <= MaxPayload) =>
                /\ frames[1].data[1] = 16 + (L \div 256)
                /\ frames[1].data[2] = L % 256
                /\ \A i \in 1..6 : frames[1].data[2 + i] = payload[i]
                /\ (Len(frames) - 1) * 7 >= L - 6
                /\ (Len(frames) - 2) * 7 < L - 6
                /\ \A k \in 2..Len(frames) : frames[k].data[1] \div 16 = 2

\* A 7-byte payload in one frame; an 8-byte payload in a First and one
\* Consecutive frame.
C8_Witness ==
    \/ Len(payload) = 7 /\ Len(frames) = 1 /\ frames[1].data[1] = 7
    \/ Len(payload) = 8 /\ Len(frames) = 2

\* The last poll of a wait handed a frame to process_received_frame and got
\* back a complete message on the awaited identifier.
MatchArrived == result /= None /\ result[1] = wait_arb_id

\* C4: a request whose response never arrives terminates, and returns None:
\* every wait ends, and a wait that ends without a matching message and
\* without a transport fault returns None.
C4_RequestTerminates ==
    /\ [](pc = "waiting" => <>(pc = "idle"))
    /\ [][(pc = "waiting" /\ pc' = "idle" /\ ~raised' /\ ~MatchArrived')
            => (response' = None /\ outcome' \notin {"none", "request_bytes"})]_vars

\* A wait ran to its deadline and returned None.
C4_Witness ==
    /\ pc = "idle"
    /\ outcome = "request_none"
    /\ wait_timeout > 0
    /\ now - start_time >= wait_timeout
    /\ sent = Len(frames)

\* C5: with all frames sent, the wait returns None only once the time since
\* it began has reached the timeout; before that it keeps polling, returns a
\* matching message, or fails with the transport.  A read or clear request
\* whose frame was sent does begin the wait, at the time of the call's clock.
C5_Step ==
    /\ (pc = "idle" /\ payload' \in {<<3>>, <<4>>} /\ sent' = Len(frames'))
        => (pc' = "waiting" /\ start_time' = now' /\ wait_timeout' = default_timeout)
    /\ (pc = "waiting" /\ pc' = "idle" /\ response' = None /\ ~raised')
        => now' - start_time >= wait_timeout
    /\ (pc = "waiting" /\ now - start_time < wait_timeout)
        => \/ pc' = "waiting"
           \/ raised'
           \/ response' /= None /\ MatchArrived'
C5_NoEarlyGiveUp == [][C5_Step]_vars

\* A wait begun after time 0 returned None at its deadline.
C5_Witness ==
    /\ pc = "idle"
    /\ response = None
    /\ ~raised
    /\ start_time > 0
    /\ wait_timeout > 0
    /\ now - start_time >= wait_timeout

\* C6: the payload a request returns is that of the complete message on the
\* awaited identifier which the last received frame completed; a complete
\* message on another identifier leaves the wait going (or lets it expire),
\* is stored nowhere and changes nothing the client keeps.
C6_Returned ==
    (pc = "idle" /\ response /= None) =>
        /\ msg /= None
        /\ msg.arbitration_id = wait_arb_id
        /\ branch \in {"single", "cf_complete"}
        /\ result = <<wait_arb_id, response[1]>>
C6_Dropped ==
    (pc = "waiting" /\ msg' /= msg /\ result' /= None /\ result'[1] /= wait_arb_id)
        => /\ pc' = "waiting"
           /\ response' = None
           /\ UNCHANGED <<active_dtcs, connected, pending_requests>>
C6_RequestMatching ==
    /\ [](C6_Returned /\ pending_requests = <<>>)
    /\ [][C6_Dropped]_vars

\* A complete message on another identifier was received during a wait, which
\* goes on.
C6_Witness ==
    /\ pc = "waiting"
    /\ result /= None
    /\ result[1] /= wait_arb_id
    /\ response = None

\* C9: a read response beginning with 0x43 replaces the active codes by the
\* floor((len - 1) / 2) codes of its big-endian byte pairs from offset 1, in
\* order; [0x43, 0x01, 0x23, 0x01, 0x20] gives exactly P0123, P0120.
C9_ReadCodes ==
    (/\ pc = "idle"
     /\ outcome \in {"read_dtcs_list", "read_data_raw"}
     /\ ~raised
     /\ response /= None
     /\ Len(response[1]) > 0
     /\ response[1][1] = 67) =>
        LET r == response[1]
        IN  /\ Len(active_dtcs) = (Len(r) - 1) \div 2
            /\ \A k \in 1..Len(active_dtcs) :
                   active_dtcs[k] = convert_raw_dtc((r[2 * k] * 256) + r[(2 * k) + 1])
            /\ r = <<67, 1, 35, 1, 32>> => active_dtcs = <<"P0123", "P0120">>

\* read_dtcs got the response of the example.
C9_Witness ==
    /\ outcome = "read_dtcs_list"
    /\ response = << <<67, 1, 35, 1, 32>> >>
    /\ active_dtcs = <<"P0123", "P0120">>

\* C10: for every raw value 0..65535 _convert_raw_dtc returns exactly five
\* characters.
C10_FiveCharacters == convert_ret /= "" => Len(convert_ret) = 5

\* C11: whenever clear_dtcs returns True (which it does exactly on a
\* response from the response identifier whose first byte is 0x44, received
\* while connected), active_dtcs is empty right afterwards, whatever it held.
C11_Step ==
    (op = "clear_dtcs" /\ pc = "waiting" /\ pc' = "idle") =>
        /\ (outcome' = "clear_true")
            <=> (/\ ~raised'
                 /\ response' /= None
                 /\ Len(response'[1]) > 0
                 /\ response'[1][1] = 68)
        /\ outcome' = "clear_true"
            => (/\ active_dtcs' = <<>>
                /\ connected
                /\ result' = <<ECU_RESPONSE, response'[1]>>)
C11_ClearRoundTrip ==
    /\ [](outcome = "clear_true" => active_dtcs = <<>>)
    /\ [][C11_Step]_vars

\* clear_dtcs has just returned True on the response 0x44.
C11_Witness ==
    /\ outcome = "clear_true"
    /\ response = << <<68>> >>
    /\ active_dtcs = <<>>
    /\ connected

\* C12: active_dtcs changes only when read_dtcs gets a response beginning
\* with 0x43, when clear_dtcs gets one beginning with 0x44, or in
\* simulate_new_dtc / simulate_dtc_clear; a read or clear call that times out,
\* gets another leading byte, fails to send or runs while disconnected leaves
\* it as it was, and so does every received frame that ends no call.
C12_Step ==
    /\ active_dtcs' /= active_dtcs =>
        \/ /\ outcome' \in {"read_dtcs_list", "read_data_raw"}
           /\ op \in {"read_dtcs", "read_data"}
           /\ response' /= None
           /\ response'[1][1] = 67
        \/ /\ outcome' = "clear_true"
           /\ op = "clear_dtcs"
           /\ response' /= None
           /\ response'[1][1] = 68
        \/ /\ outcome' = "simulate"
           /\ Idle
    /\ (/\ op \in {"read_dtcs", "read_data", "clear_dtcs"}
        /\ pc' = "idle"
        /\ \/ response' = None
           \/ op = "clear_dtcs" /\ response'[1][1] /= 68
           \/ op /= "clear_dtcs" /\ response'[1][1] /= 67)
       => active_dtcs' = active_dtcs
    /\ (Idle /\ ~connected /\ outcome' \in {"read_dtcs_list", "clear_false", "read_data_none"})
       => active_dtcs' = active_dtcs
    /\ pc' = "waiting" => active_dtcs' = active_dtcs
C12_ActiveCodesFrame == [][C12_Step]_vars

\* read_dtcs got a response beginning with 0x44 and left the codes it held.
C12_Witness ==
    /\ outcome = "read_dtcs_list"
    /\ response = << <<68>> >>
    /\ active_dtcs /= <<>>

\* The last call met a transport fault: bus.send refused one of its frames,
\* or bus.recv failed during its wait.
TransportFault ==
    /\ Idle
    /\ \/ raised
       \/ frames /= <<>> /\ sent < Len(frames)

\* C13: a call that meets a transport fault in bus.send or bus.recv ends with
\* an error raised to its caller, and connected is False afterwards.
C13_FaultPropagates ==
    TransportFault => (outcome = "request_raised" /\ ~connected)

\* C14: create_send_frames called with more than 4095 bytes fails and returns
\* no frames; it never emits a First frame whose 12-bit length field is a
\* truncation of the real length.
C14_OversizedRejected ==
    Len(payload) > MaxPayload =>
        /\ frames = <<>>
        /\ \A i \in 1..Len(frames) :
               frames[i].data[1] \div 16 = 1
                   => (((frames[i].data[1] % 16) * 256) + frames[i].data[2]) = Len(payload)

\* C15: at the start of every call of process_received_frame, every stored
\* reassembly whose First frame was received more than the timeout ago is
\* removed, however recently Consecutive frames for it were accepted: after
\* the call the store holds it no more (or holds a new one, begun by this
\* call's First frame).
C15_Step ==
    (now' = now /\ msg' /= None) =>
        \A X \in DOMAIN receive_buffer :
            now - started_at[X] > timeout =>
                /\ X \in to_delete'
                /\ X \in DOMAIN receive_buffer' => started_at'[X] = now
C15_SweepFromFirstFrame == [][C15_Step]_vars

\* C16: a First frame on an identifier that has a stored reassembly replaces
\* it: the state is that of the new frame alone (its bytes [2:], its declared
\* length, remaining recomputed, last_seq 0), nothing is returned and no
\* other entry appears; a stored reassembly always consists of the bytes of
\* its latest First frame and of the Consecutive frames accepted since, and
\* the message delivered is just that and the completing frame's bytes.
C16_Step ==
    (now' = now /\ msg' /= None) =>
        LET X == msg'.arbitration_id
            d == msg'.data
            length == ((d[1] % 16) * 256) + d[2]
        IN  /\ (IsFirst(msg') /\ X \in DOMAIN receive_buffer /\ X \notin to_delete')
               => (/\ receive_buffer'[X] = [data |-> <<d[3], d[4], d[5], d[6], d[7], d[8]>>,
                                            expected_length |-> length,
                                            remaining |-> length - 6,
                                            last_seq |-> 0]
                   /\ result' = None
                   /\ DOMAIN receive_buffer' = (DOMAIN receive_buffer) \ to_delete')
            /\ branch' = "cf_complete"
               => result' = <<X, receive_buffer[X].data \o <<d[2], d[3], d[4], d[5], d[6], d[7], d[8]>> >>
C16_LatestOnly ==
    \A X \in DOMAIN receive_buffer :
        LET st == receive_buffer[X]
        IN  /\ Len(st.data) = 6 + (7 * st.last_seq)
            /\ \A i \in 1..6 : st.data[i] = 100 + st.expected_length
            /\ \A i \in 7..Len(st.data) : st.data[i] \in {1, 101}
C16_FirstFrameReplaces == []C16_LatestOnly /\ [][C16_Step]_vars

\* A First frame declaring 13 bytes was fed after time had passed, and the
\* state of its identifier is that of this frame alone.
C16_Witness ==
    /\ branch = "first"
    /\ now > 0
    /\ to_delete = {}
    /\ msg.data[2] = 13
    /\ receive_buffer[msg.arbitration_id].remaining = 7
    /\ Len(receive_buffer[msg.arbitration_id].data) = 6
    /\ result = None

\* C17: every stored reassembly has remaining = expected_length - len(data),
\* last_seq in 0..15 and expected_length in 0..4095.
C17_RemainingCount ==
    \A X \in DOMAIN receive_buffer :
        LET st == receive_buffer[X]
        IN  /\ st.remaining = st.expected_length - Len(st.data)
            /\ st.last_seq \in 0..15
            /\ st.expected_length \in 0..MaxPayload

\* A reassembly of 20 declared bytes holds its First frame and one
\* Consecutive frame: 13 bytes, 7 to come.
C17_Witness ==
    \E X \in DOMAIN receive_buffer :
        /\ receive_buffer[X].expected_length = 20
        /\ receive_buffer[X].last_seq = 1
        /\ Len(receive_buffer[X].data) = 13
        /\ receive_buffer[X].remaining = 7

\* C18: every stored reassembly has remaining > 0, also one created by a
\* First frame that declares 6 bytes or fewer.
C18_StoredUnfinished ==
    \A X \in DOMAIN receive_buffer : receive_buffer[X].remaining > 0

\* The identifiers whose entry is older than the timeout at the pre-state's
\* clock: what the sweep of the next call removes.
TimedOut == {a \in DOMAIN last_received : now - last_received[a] > timeout}

\* The tables after the sweep alone.
OnlySwept ==
    /\ receive_buffer' = [a \in (DOMAIN receive_buffer) \ TimedOut |-> receive_buffer[a]]
    /\ last_received' = [a \in (DOMAIN last_received) \ TimedOut |-> last_received[a]]

\* C19: a Single frame on X returns (X, bytes [1 .. 1+length)), length being
\* byte 0's lower nibble, and leaves both tables as the sweep left them, the
\* entry of X included.
C19_Step ==
    (now' = now /\ msg' /= None /\ msg'.data[1] \div 16 = 0) =>
        LET d == msg'.data
            length == d[1] % 16
            n == IF length < 7 THEN length ELSE 7
        IN  /\ result' = <<msg'.arbitration_id, [i \in 1..n |-> d[1 + i]]>>
            /\ OnlySwept
C19_SingleFrameStateless == [][C19_Step]_vars

\* A Single frame of 3 bytes was returned on an identifier whose reassembly
\* is still stored.
C19_Witness ==
    /\ branch = "single"
    /\ msg.arbitration_id \in DOMAIN receive_buffer
    /\ result = <<msg.arbitration_id, <<1, 101, 101>> >>

\* C20: a frame whose byte 0 has an upper nibble other than 0, 1, 2, and a
\* Consecutive frame on an identifier without a stored reassembly (none, or
\* one the sweep of this call removed), return None and leave both tables as
\* the sweep left them.
C20_Step ==
    (/\ now' = now
     /\ msg' /= None
     /\ \/ msg'.data[1] \div 16 \notin {0, 1, 2}
        \/ /\ msg'.data[1] \div 16 = 2
           /\ msg'.arbitration_id \notin (DOMAIN receive_buffer) \ TimedOut)
    => (/\ result' = None
        /\ branch' \in {"unknown", "cf_unmatched"}
        /\ OnlySwept)
C20_MalformedAbsorbed == [][C20_Step]_vars

\* A frame of no known kind was fed while a reassembly was stored, which
\* stays.
C20_Witness ==
    /\ branch = "unknown"
    /\ result = None
    /\ receive_buffer /= <<>>

\* C21: an accepted Consecutive frame that brings remaining to zero or below
\* returns the accumulated bytes and removes the identifier's entries in the
\* same call; a Consecutive frame returns a message only by consuming a
\* stored reassembly, so a First frame leads to at most one message, and a
\* further Consecutive frame on the identifier returns nothing and stores
\* nothing.
C21_Step ==
    (now' = now /\ msg' /= None /\ msg'.data[1] \div 16 = 2) =>
        LET X == msg'.arbitration_id
            d == msg'.data
            stored == X \in (DOMAIN receive_buffer) \ TimedOut
        IN  /\ (/\ stored
                /\ d[1] % 16 = (receive_buffer[X].last_seq + 1) % 16
                /\ receive_buffer[X].remaining - 7 <= 0)
               => (/\ result' = <<X, receive_buffer[X].data
                                        \o <<d[2], d[3], d[4], d[5], d[6], d[7], d[8]>> >>
                   /\ X \notin DOMAIN receive_buffer'
                   /\ X \notin DOMAIN last_received')
            /\ result' /= None
               => (/\ stored
                   /\ receive_buffer[X].remaining - 7 <= 0
                   /\ X \notin DOMAIN receive_buffer')
            /\ ~stored
               => (result' = None /\ X \notin DOMAIN receive_buffer')
C21_CompletionRemoves == [][C21_Step]_vars

\* A reassembly of 13 declared bytes was completed by its Consecutive frame,
\* which brought remaining to exactly zero; its entries are gone.
C21_Witness ==
    /\ branch = "cf_complete"
    /\ result /= None
    /\ Len(result[2]) = 13
    /\ result[2][1] = 113
    /\ msg.arbitration_id \notin DOMAIN receive_buffer
    /\ msg.arbitration_id \notin DOMAIN last_received

\* C22: active_dtcs never holds a code more than once.
C22_NoDuplicates ==
    \A i, j \in 1..Len(active_dtcs) : i /= j => active_dtcs[i] /= active_dtcs[j]

\* C24: the payload a request returns is assembled only from frames received
\* during that call's wait: a multi-frame response was begun (its First frame
\* received) no earlier than the wait.
C24_OnlyThisWait ==
    (pc = "waiting" /\ pc' = "idle" /\ response' /= None /\ branch' = "cf_complete")
        => (/\ wait_arb_id \in DOMAIN last_received
            /\ FirstOnly(receive_buffer, wait_arb_id)
            /\ last_received[wait_arb_id] >= start_time)
C24_NoCarryOver == [][C24_OnlyThisWait]_vars

\* C24, amended: the payload a request returns is the message completed by a
\* frame received during that call's wait on the awaited identifier; it is
\* that frame's bytes alone (Single frame) or the stored reassembly of the
\* identifier followed by that frame's bytes, whenever the reassembly was
\* begun, provided its last accepted frame is no older than the timeout.
C24_CompletedInWait ==
    (pc = "waiting" /\ pc' = "idle" /\ response' /= None) =>
        LET X == msg'.arbitration_id
            d == msg'.data
            length == IF d[1] % 16 < 7 THEN d[1] % 16 ELSE 7
        IN  /\ X = wait_arb_id
            /\ now' - start_time <= wait_timeout
            /\ branch' \in {"single", "cf_complete"}
            /\ branch' = "single"
               => response'[1] = [i \in 1..length |-> d[1 + i]]
            /\ branch' = "cf_complete"
               => (/\ X \in DOMAIN last_received
                   /\ now' - last_received[X] <= timeout
                   /\ response'[1] = receive_buffer[X].data
                                        \o <<d[2], d[3], d[4], d[5], d[6], d[7], d[8]>>)
C24_CarryOverWithinTimeout == [][C24_CompletedInWait]_vars

\* A wait is going on while the store holds, for the awaited identifier, a
\* reassembly begun before the wait and not yet timed out.
C24_Witness ==
    /\ pc = "waiting"
    /\ wait_arb_id \in DOMAIN receive_buffer
    /\ last_received[wait_arb_id] < start_time
    /\ now - last_received[wait_arb_id] <= timeout

\* C25: for a payload of L bytes, 8 <= L <= 4095, feeding the frames of
\* create_send_frames in order into an empty store returns nothing before
\* the last frame and on it one message: the L bytes of the payload followed
\* by the 0xCC filler of the last Consecutive frame, fewer than 7 bytes.
C25_PaddedDelivery ==
    (frames /= <<>> /\ Len(payload) >= 8 /\ Len(payload) <= MaxPayload) =>
        LET L == Len(payload)
            pad == (7 - ((L - 6) % 7)) % 7
        IN  /\ fed < Len(frames) => result = None
            /\ fed = Len(frames) =>
                /\ result /= None
                /\ result[1] = ECU_REQUEST
                /\ Len(result[2]) = L + pad
                /\ pad < 7
                /\ \A i \in 1..L : result[2][i] = payload[i]
                /\ \A i \in (L + 1)..(L + pad) : result[2][i] = Filler

\* A payload of 100 bytes was delivered as 104: itself and four filler bytes.
C25_Witness ==
    /\ AllFed
    /\ Len(payload) = 100
    /\ result /= None
    /\ Len(result[2]) = 104
    /\ result[2][100] = payload[100]
    /\ result[2][104] = Filler

\* C26: the identifiers of receive_buffer are those of last_received, so the
\* paired deletions of the sweep, the sequence error and the completion find
\* their keys.
C26_TableConsistency == DOMAIN receive_buffer = DOMAIN last_received

\* A call swept one identifier and stored a reassembly for another; the two
\* tables name the same identifier.
C26_Witness ==
    /\ to_delete /= {}
    /\ receive_buffer /= <<>>
    /\ DOMAIN receive_buffer = DOMAIN last_received
    /\ \A a \in to_delete : a \notin DOMAIN last_received

\* What feeding the frames of payload p alone, in order, delivers (C25).
AloneDelivery(p) ==
    LET pad == (7 - ((Len(p) - 6) % 7)) % 7
    IN  [i \in 1..(Len(p) + pad) |-> IF i <= Len(p) THEN p[i] ELSE Filler]

\* The last call was fed the k-th frame of the message (p, fs) on
\* identifier X: it returned what it returns when that message is fed alone.
AsAlone(X, p, fs, k) ==
    /\ k >= 1
    /\ msg = fs[k]
    /\ result = IF k = Len(fs) THEN <<X, AloneDelivery(p)>> ELSE None

\* C23: when the frames of two multi-frame messages on distinct identifiers
\* are fed in any interleaving that keeps each message's order and stays
\* within the timeout, every call returns what it returns when its message is
\* fed alone, and a frame on one identifier leaves the entries of the other
\* as they were.
C23_DeliveredAsAlone ==
    msg /= None =>
        IF msg.arbitration_id = ECU_REQUEST
        THEN AsAlone(ECU_REQUEST, payload, frames, fed)
        ELSE AsAlone(ECU_RESPONSE, payload_b, frames_b, fed_b)
C23_Step ==
    (now' = now /\ msg' /= None) =>
        \A Y \in FeedIds \ {msg'.arbitration_id} :
            /\ Y \in DOMAIN receive_buffer' <=> Y \in DOMAIN receive_buffer
            /\ Y \in DOMAIN last_received' <=> Y \in DOMAIN last_received
            /\ Y \in DOMAIN receive_buffer
               => (/\ receive_buffer'[Y] = receive_buffer[Y]
                   /\ last_received'[Y] = last_received[Y])
C23_Isolation == []C23_DeliveredAsAlone /\ [][C23_Step]_vars

\* The second message was delivered whole while the first, begun earlier, is
\* still being reassembled.
C23_Witness ==
    /\ frames_b /= <<>>
    /\ fed_b = Len(frames_b)
    /\ fed >= 2
    /\ fed < Len(frames)
    /\ ECU_REQUEST \in DOMAIN receive_buffer
    /\ last_received[ECU_REQUEST] < now
    /\ result = <<ECU_RESPONSE, AloneDelivery(payload_b)>>

====
